---- MODULE Spec2Model ----
(***************************************************************************)
(* State-machine model of MCPService (src/app/routes/api.mcp-check.ts):    *)
(* the process-wide configuration and metadata cache, one request/user     *)
(* instance, the service instances that updateGlobalConfig builds, and the *)
(* client handles they open.  Every I/O await of the source (connect,      *)
(* tools(), execute, close) is one step; the synchronous code between two  *)
(* awaits, and the return of an async function to the caller awaiting it,  *)
(* is part of the step that resumes it.                                    *)
(***************************************************************************)
EXTENDS Integers, Sequences, FiniteSets, TLC

\* ---------------------------------------------------------------- bounds
\* number of MCPService.updateGlobalConfig calls explored
MaxGlobalUpdates == 2
\* number of operations other than cleanup started on the user instance
MaxOps == 2
\* number of parts of the last message of a processToolInvocations call
\* explored on its own (SpecCall, SpecOverlap)
MaxParts == 2
\* number of parts of the last message of the calls inside a sequence of
\* operations (Spec)
MaxSeqParts == 1
\* number of I/O failures (connect, tools(), execute) the environment injects
MaxFailures == 1

\* ------------------------------------------------------------- constants
\* ~/utils/constants, imported at api.mcp-check.ts:31-36
APPROVE == "Yes, approved."
REJECT == "No, rejected."
TOOL_EXECUTION_DENIED == "Error: User denied access to tool execution"
TOOL_EXECUTION_ERROR == "Error: An error occured while calling the tool"
TOOL_NO_EXECUTE_FUNCTION == "Error: No execute function found on tool"

\* the messages of the errors thrown and stored (without their inner quotes)
ErrBoth == "cannot have command and url defined for the same server."
ErrMissingType == "missing type field, only sse and streamable-http are valid options."
ErrInvalidType == "provided type is invalid, only stdio, sse or streamable-http are valid options."
ErrMissingCommand == "missing command field."
ErrMissingUrl == "missing url field."
ErrSchema == "Invalid configuration for server"
ErrStdioUnsupported == "STDIO transport not supported in this environment"
ErrTypeError == "TypeError: cannot read properties of undefined"
\* the message of the error the transport library raises when it cannot connect
ErrConnect == "connection error"
ErrListing == "could not retrieve tools from server"
ErrProbeConnect == "could not connect to server"

EmptyMap == << >>

Put(f, k, v) == [x \in (DOMAIN f) \cup {k} |-> IF x = k THEN v ELSE f[x]]

Range(q) == {q[n] : n \in DOMAIN q}

\* -------------------------------------------------- servers and configs
Servers == {"A", "B"}

\* the capability names each tool server advertises from client.tools()
ServerTools(s) == IF s = "A" THEN {"search", "ta"} ELSE {"search"}

Raw(command, url, type) == [command |-> command, url |-> url, type |-> type]

\* the configuration objects (references) handed to the service
Configs == {"Cfg1", "Cfg2", "Cfg3"}

\* the mcpServers record of a configuration object; "Cfg3" has no server and
\* "Default" is the per-instance initial { mcpServers: {} }
McpServers(c) ==
  CASE c = "Cfg1" -> [s \in {"A", "B"} |->
                        IF s = "A" THEN Raw("absent", "ok", "sse")
                                   ELSE Raw("ok", "absent", "absent")]
    [] c = "Cfg2" -> [s \in {"A"} |-> Raw("ok", "ok", "absent")]
    [] OTHER -> EmptyMap

KnownTypes == {"stdio", "sse", "streamable-http"}

\* mcpServerConfigSchema.parse on an entry that passed the field rules
SchemaOk(raw, type) ==
  IF type = "stdio" THEN raw.command = "ok" ELSE raw.url = "ok"

\* the validation without the inference of the type from the command field
_validateServerConfigAsGiven(raw) ==
  LET hasStdioField == raw.command # "absent"
      hasUrlField == raw.url # "absent"
      Fail(e) == [ok |-> FALSE, type |-> "", error |-> e]
  IN  IF hasStdioField /\ hasUrlField THEN Fail(ErrBoth)
      ELSE IF hasUrlField /\ raw.type = "absent" THEN Fail(ErrMissingType)
      ELSE IF raw.type \notin KnownTypes THEN Fail(ErrInvalidType)
      ELSE IF raw.type = "stdio" /\ ~hasStdioField THEN Fail(ErrMissingCommand)
      ELSE IF raw.type \in {"sse", "streamable-http"} /\ ~hasUrlField THEN Fail(ErrMissingUrl)
      ELSE IF ~SchemaOk(raw, raw.type) THEN Fail(ErrSchema)
      ELSE [ok |-> TRUE, type |-> raw.type, error |-> ""]

\* the validation with the type rules ahead of the both-fields rule
_validateServerConfigTypeFirst(raw) ==
  LET hasStdioField == raw.command # "absent"
      hasUrlField == raw.url # "absent"
      type == IF raw.type = "absent" /\ hasStdioField THEN "stdio" ELSE raw.type
      Fail(e) == [ok |-> FALSE, type |-> "", error |-> e]
  IN  IF hasUrlField /\ type = "absent" THEN Fail(ErrMissingType)
      ELSE IF type \notin KnownTypes THEN Fail(ErrInvalidType)
      ELSE IF hasStdioField /\ hasUrlField THEN Fail(ErrBoth)
      ELSE IF type = "stdio" /\ ~hasStdioField THEN Fail(ErrMissingCommand)
      ELSE IF type \in {"sse", "streamable-http"} /\ ~hasUrlField THEN Fail(ErrMissingUrl)
      ELSE IF ~SchemaOk(raw, type) THEN Fail(ErrSchema)
      ELSE [ok |-> TRUE, type |-> type, error |-> ""]

\* MCPService._validateServerConfig: the validated type or the error thrown
\* command: "absent" | "ok" | "empty";  url: "absent" | "ok" | "malformed"
\* type: "absent" | "stdio" | "sse" | "streamable-http" | "other"
_validateServerConfig(raw) ==
  LET hasStdioField == raw.command # "absent"
      hasUrlField == raw.url # "absent"
      type == IF raw.type = "absent" /\ hasStdioField THEN "stdio" ELSE raw.type
      Fail(e) == [ok |-> FALSE, type |-> "", error |-> e]
  IN  IF hasStdioField /\ hasUrlField THEN Fail(ErrBoth)
      ELSE IF hasUrlField /\ type = "absent" THEN Fail(ErrMissingType)
      ELSE IF type \notin KnownTypes THEN Fail(ErrInvalidType)
      ELSE IF type = "stdio" /\ ~hasStdioField THEN Fail(ErrMissingCommand)
      ELSE IF type \in {"sse", "streamable-http"} /\ ~hasUrlField THEN Fail(ErrMissingUrl)
      ELSE IF ~SchemaOk(raw, type) THEN Fail(ErrSchema)
      ELSE [ok |-> TRUE, type |-> type, error |-> ""]

\* the raw entries handed to _validateServerConfig
RawEntries ==
  {Raw(c, u, t) : c \in {"absent", "ok", "empty"}, u \in {"absent", "ok", "malformed"},
                  t \in {"absent", "stdio", "sse", "streamable-http", "other"}}

\* lines 201-203: the entry object after the call (its type is assigned when
\* it is inferred)
ConfigAfter(raw) ==
  IF raw.command # "absent" /\ raw.url = "absent" /\ raw.type = "absent"
    THEN [raw EXCEPT !.type = "stdio"]
    ELSE raw

\* MCPService._createMCPClient up to the transport call: "" when a
\* connection attempt is made, otherwise the message of the error thrown
\* before any attempt
CreateMCPClientError(c, s, node) ==
  IF s \notin DOMAIN McpServers(c) THEN ErrTypeError
  ELSE LET v == _validateServerConfig(McpServers(c)[s])
       IN  IF ~v.ok THEN v.error
           ELSE IF v.type = "stdio" /\ ~node THEN ErrStdioUnsupported
           ELSE ""

\* ------------------------------------------------------------ instances
User == 0
Services == 1..MaxGlobalUpdates
Insts == {User} \cup Services

\* field initialisers of class MCPService
NewInst(c) ==
  [tools |-> EmptyMap, toolsWithoutExecute |-> EmptyMap,
   mcpToolsPerServer |-> EmptyMap, toolNamesToServerNames |-> EmptyMap,
   config |-> c, clients |-> << >>, forceCreateClients |-> FALSE,
   lazyClients |-> EmptyMap]

NoCache == [isNull |-> TRUE]

Available(h, names) ==
  [status |-> "available", client |-> h, tools |-> names, error |-> ""]

Unavailable(h, e) ==
  [status |-> "unavailable", client |-> h, tools |-> {}, error |-> e]

\* a client handle is named by the instance, the operation and the task that
\* opened it; NoClient is the null client
NoClient == << >>

Tool(s, h) == [server |-> s, handle |-> h, execute |-> TRUE]

\* { ...tool, execute: undefined }
Stripped(s) == [server |-> s, handle |-> NoClient, execute |-> FALSE]

\* the logger.warn condition of _registerTools
ToolConflict(inst, s, n) ==
  /\ n \in DOMAIN inst.tools
  /\ n \in DOMAIN inst.toolNamesToServerNames
  /\ inst.toolNamesToServerNames[n] # s

\* the tool-conflict warnings one _registerTools call logs
RegisterWarnings(inst, s, names) ==
  {<<n, s, inst.toolNamesToServerNames[n]>> : n \in {m \in names : ToolConflict(inst, s, m)}}

\* the registration that keeps the binding a name already has
_registerToolsFirstWins(inst, s, h, names) ==
  LET fresh == names \ DOMAIN inst.tools IN
  [inst EXCEPT
     !.tools = [n \in (DOMAIN @) \cup fresh |-> IF n \in fresh THEN Tool(s, h) ELSE @[n]],
     !.toolsWithoutExecute =
        [n \in (DOMAIN @) \cup fresh |-> IF n \in fresh THEN Stripped(s) ELSE @[n]],
     !.toolNamesToServerNames =
        [n \in (DOMAIN @) \cup fresh |-> IF n \in fresh THEN s ELSE @[n]]]

\* a registration that leaves the ownership index alone
_registerToolsNoIndex(inst, s, h, names) ==
  [inst EXCEPT
     !.tools = [n \in (DOMAIN @) \cup names |-> IF n \in names THEN Tool(s, h) ELSE @[n]],
     !.toolsWithoutExecute =
        [n \in (DOMAIN @) \cup names |-> IF n \in names THEN Stripped(s) ELSE @[n]]]

\* MCPService._registerTools: the three maps after the call
_registerTools(inst, s, h, names) ==
  [inst EXCEPT
     !.tools = [n \in (DOMAIN @) \cup names |-> IF n \in names THEN Tool(s, h) ELSE @[n]],
     !.toolsWithoutExecute =
        [n \in (DOMAIN @) \cup names |-> IF n \in names THEN Stripped(s) ELSE @[n]],
     !.toolNamesToServerNames =
        [n \in (DOMAIN @) \cup names |-> IF n \in names THEN s ELSE @[n]]]

\* _closeClients without the assignment this._clients = []
ClearInstKeepClients(inst) ==
  [inst EXCEPT !.lazyClients = EmptyMap, !.tools = EmptyMap,
               !.toolsWithoutExecute = EmptyMap, !.mcpToolsPerServer = EmptyMap,
               !.toolNamesToServerNames = EmptyMap]

\* the assignments of _closeClients after Promise.allSettled
ClearInst(inst) ==
  [inst EXCEPT !.clients = << >>, !.lazyClients = EmptyMap, !.tools = EmptyMap,
               !.toolsWithoutExecute = EmptyMap, !.mcpToolsPerServer = EmptyMap,
               !.toolNamesToServerNames = EmptyMap]

\* a guard that never takes the cached path
CacheHitNever(inst, gc, cache) == FALSE

\* the guard of the cached path (_createClients and checkServersAvailabilities)
CacheHit(inst, gc, cache) == ~cache.isNull /\ inst.config = gc

VARIABLES
  globalConfig,          \* "null" or a configuration reference
  globalMetadataCache,   \* NoCache or the metadata snapshot
  isNode,                \* whether the runtime can spawn processes
  made,                  \* made[i]: instance i has been constructed
  svc,                   \* svc[i]: the fields of instance i
  main,                  \* main[i]: the bulk/probe/cleanup operation of i
  handles,               \* every client handle opened so far
  logWarn,               \* tool-conflict warnings logged by the latest step
  nops,                  \* operations other than cleanup started on the user instance
  lastDone,              \* the operation the user instance completed last (the
                         \* branch of its constructor before the first), and
                         \* the number of close() calls it made if it is cleanup
  nfail,                 \* I/O failures injected so far
  overlapped,            \* two operations of the user instance were in flight together
  pti,                   \* the processToolInvocations call of the user instance
  called,                \* the synchronous method the latest step called on the
                         \* user instance, with what it returned and wrote
  entry,                 \* the server entry given to _validateServerConfig on its
                         \* own, the entry object after the call and the result
  isBrowser,             \* the settings store runs in a browser (window is defined)
  localStorage,          \* the item stored under MCP_SETTINGS_KEY
  store,                 \* the state of useMCPStore
  storeCalls             \* the calls made to the actions of useMCPStore, in the
                         \* order they were made

vars == <<globalConfig, globalMetadataCache, isNode, made, svc, main, handles,
          logWarn, nops, lastDone, nfail, overlapped, pti, called, entry,
          isBrowser, localStorage, store, storeCalls>>

serviceVars == <<globalConfig, globalMetadataCache, isNode, made, svc, main, handles,
                 logWarn, nops, lastDone, nfail, overlapped, pti, called, entry>>

storeVars == <<isBrowser, localStorage, store, storeCalls>>

\* ------------------------------------------------ the MCP settings store
\* calls made to the store in one behaviour
MaxStoreCalls == 2

defaultSettings == [mcpConfig |-> "Default", maxLLMSteps |-> 5]

\* the settings a caller passes or a saved item holds
StoreSettings ==
  {defaultSettings} \cup {[mcpConfig |-> c, maxLLMSteps |-> 5] : c \in {"Cfg1", "Cfg2"}}

\* localStorage.getItem(MCP_SETTINGS_KEY): no item, the text JSON.stringify
\* made of some settings, or a text JSON.parse cannot read as settings
NoItem == [kind |-> "none", value |-> defaultSettings]

Garbage == [kind |-> "garbage", value |-> defaultSettings]

Stringify(settings) == [kind |-> "json", value |-> settings]

Parse(item) == [ok |-> item.kind = "json", value |-> item.value]

\* the MCPServerTools maps: {} and the body of a response for a configuration
EmptyTools == "{}"

ToolsOf(c) == "tools of " \o c

ErrInitServers == "Failed to initialize servers"
ErrParseSaved == "Error parsing saved mcp config"

\* the state create() gives the store
StoreInit ==
  [isInitialized |-> FALSE, settings |-> defaultSettings, serverTools |-> EmptyTools,
   error |-> "", isUpdatingConfig |-> FALSE]

\* the store before any call, in a browser without a saved item
StoreFresh ==
  /\ isBrowser = TRUE
  /\ localStorage = NoItem
  /\ store = StoreInit
  /\ storeCalls = << >>

Done(op, closed) == [op |-> op, closed |-> closed]

Idle == [op |-> "none", pc |-> "idle", id |-> 0, cfg |-> "Default",
         tasks |-> EmptyMap, path |-> "", ret |-> EmptyMap,
         overlap |-> FALSE, prev |-> Done("none", 0), closed |-> 0]

\* stream: the tool_result events written to the data stream, kept per
\* toolCallId in the order written (the order between the events of different
\* invocations is not kept); earlier: the messages before the last one;
\* again: the call was given the messages the call before it returned
PtiIdle == [pc |-> "idle", id |-> 0, parts |-> << >>, st |-> << >>,
            stream |-> << >>, out |-> << >>, earlier |-> << >>, again |-> FALSE,
            ret |-> << >>]

\* ret: the value returned ("" for void), or the error thrown;
\* annotation: the message annotation written to the data stream
Call(op, name, ret, annotation) ==
  [op |-> op, name |-> name, ret |-> ret, annotation |-> annotation]

NoCall == Call("none", "", "", << >>)

NotValidated == [ok |-> FALSE, type |-> "", error |-> "not called"]

Entry(s, raw) == [server |-> s, raw |-> raw, config |-> raw, result |-> NotValidated]

NoEntry == Entry("", Raw("absent", "absent", "absent"))

InitService ==
  /\ globalConfig = "null"
  /\ globalMetadataCache = NoCache
  /\ isNode \in BOOLEAN
  /\ made = [i \in Insts |-> FALSE]
  /\ svc = [i \in Insts |-> NewInst("Default")]
  /\ main = [i \in Insts |-> Idle]
  /\ handles = EmptyMap
  /\ logWarn = {}
  /\ nops = 0
  /\ lastDone = Done("none", 0)
  /\ nfail = 0
  /\ overlapped = FALSE
  /\ pti = PtiIdle
  /\ called = NoCall

Init == InitService /\ entry = NoEntry /\ StoreFresh

\* ------------------------------------------------------------ handles
NewHandle(s, via) ==
  [server |-> s, via |-> via, state |-> "open", closeCalls |-> 0, users |-> {}]

Owner(h) == h[1]

Count(h, q) == Cardinality({n \in DOMAIN q : q[n] = h})

\* client.close() called once per element of clients (the map of _closeClients)
CloseAll(hs, clients, i) ==
  [h \in DOMAIN hs |->
     IF Count(h, clients) = 0 THEN hs[h]
     ELSE [hs[h] EXCEPT !.closeCalls = @ + Count(h, clients), !.users = @ \cup {i},
                        !.state = IF @ = "closed" THEN @ ELSE "closing"]]

\* the close() calls of instance i have all settled
CloseSettled(hs, i) ==
  [h \in DOMAIN hs |->
     IF Owner(h) = i /\ hs[h].state = "closing" THEN [hs[h] EXCEPT !.state = "closed"]
     ELSE hs[h]]

\* client.tools() called on h by instance i
UseHandle(hs, h, i) == [hs EXCEPT ![h].users = @ \cup {i}]

MainBusy(i) == main[i].pc \notin {"idle", "done"}

PtiBusy == pti.pc = "running"

Task(pc, client, err) == [pc |-> pc, client |-> client, err |-> err, outcome |-> ""]

\* Exploration order.  Between its start and the join of its tasks a service
\* instance of updateGlobalConfig reads and writes only its own fields and
\* its own handles, which no other instance can reach before the snapshot is
\* stored; these steps commute with every step of another instance, so they
\* are explored before any other step (all task interleavings inside the
\* service instance are kept).
Internal(k) ==
  \/ main[k].pc = "closing"
  \/ /\ main[k].pc = "probing"
     /\ \E s \in DOMAIN main[k].tasks : main[k].tasks[s].pc # "done"

ServiceProbing == \E k \in Services : Internal(k)

Sched(i) == IF i = User THEN ~ServiceProbing ELSE Internal(i)

\* a closed handle that nothing refers to any more cannot be used or closed
\* again; it is dropped from the record of handles
Referenced(x) ==
  \/ \E i \in Insts :
       \/ x \in Range(svc[i].clients)
       \/ x \in Range(svc[i].lazyClients)
       \/ \E n \in DOMAIN svc[i].tools : svc[i].tools[n].handle = x
       \/ \E s \in DOMAIN svc[i].mcpToolsPerServer : svc[i].mcpToolsPerServer[s].client = x
       \/ \E s \in DOMAIN main[i].tasks : main[i].tasks[s].client = x
       \/ \E s \in DOMAIN main[i].ret : main[i].ret[s].client = x
  \/ /\ ~globalMetadataCache.isNull
     /\ \E s \in DOMAIN globalMetadataCache.mcpToolsPerServer :
          globalMetadataCache.mcpToolsPerServer[s].client = x
  \/ \E p \in DOMAIN pti.st : pti.st[p].client = x \/ pti.st[p].bind = x

\* the end of every step: W are the warnings the step logged, H the handles,
\* F whether the environment made the awaited I/O fail
Finish(W, H, F) ==
  /\ F => nfail < MaxFailures
  /\ nfail' = IF F THEN nfail + 1 ELSE nfail
  /\ logWarn' = W
  /\ called' = NoCall
  /\ UNCHANGED entry
  /\ UNCHANGED storeVars
  /\ handles' = [h \in {x \in DOMAIN H : H[x].state # "closed" \/ Referenced(x)'} |-> H[h]]

\* ------------------------------------------------------- construction
\* constructor(config?): c = "none" is createRequestInstance()
\* a constructor that copies the ownership index of the snapshot but not its
\* stripped namespace
ConstructorIndexOnly(c, gc, cache) ==
  IF c # "none" THEN NewInst(c)
  ELSE IF gc # "null" THEN
    IF ~cache.isNull
      THEN [NewInst(gc) EXCEPT
              !.toolNamesToServerNames = cache.toolNamesToServerNames,
              !.mcpToolsPerServer = cache.mcpToolsPerServer]
      ELSE NewInst(gc)
  ELSE NewInst("Default")

Constructor(c, gc, cache) ==
  IF c # "none" THEN NewInst(c)
  ELSE IF gc # "null" THEN
    IF ~cache.isNull
      THEN [NewInst(gc) EXCEPT
              !.toolsWithoutExecute = cache.toolsWithoutExecute,
              !.toolNamesToServerNames = cache.toolNamesToServerNames,
              !.mcpToolsPerServer = cache.mcpToolsPerServer]
      ELSE NewInst(gc)
  ELSE NewInst("Default")

\* the branch of the constructor that made the instance: "config" (a
\* configuration was passed), "snapshot" (globalConfig and the copy of the
\* cache), "global" (globalConfig alone) or "default"
Built(c, gc, cache) ==
  IF c # "none" THEN "config"
  ELSE IF gc # "null" THEN (IF ~cache.isNull THEN "snapshot" ELSE "global")
  ELSE "default"

Construct(c) ==
  /\ ~ServiceProbing
  /\ ~made[User]
  /\ made' = [made EXCEPT ![User] = TRUE]
  /\ svc' = [svc EXCEPT ![User] = Constructor(c, globalConfig, globalMetadataCache)]
  /\ lastDone' = Done(Built(c, globalConfig, globalMetadataCache), 0)
  /\ UNCHANGED <<globalConfig, globalMetadataCache, isNode, main, nops, overlapped, pti>>
  /\ Finish({}, handles, FALSE)

\* ------------------------------------------------- bulk reconfiguration
\* updateGlobalConfig up to the first await (inside _closeClients)
UpdateGlobalConfigStart(k, c) ==
  /\ ~ServiceProbing
  /\ ~made[k]
  /\ \A j \in Services : j < k => made[j]
  /\ globalConfig' = c
  /\ made' = [made EXCEPT ![k] = TRUE]
  /\ svc' = [svc EXCEPT ![k] = [NewInst(c) EXCEPT !.forceCreateClients = TRUE]]
  /\ main' = [main EXCEPT ![k] = [Idle EXCEPT !.op = "updateGlobal", !.pc = "closing",
                                              !.cfg = c, !.id = 1]]
  /\ UNCHANGED <<globalMetadataCache, isNode, nops, lastDone,
                 overlapped, pti>>
  /\ Finish({}, handles, FALSE)

StartMain(op, pc, c) ==
  [Idle EXCEPT !.op = op, !.pc = pc, !.cfg = c, !.id = nops + 1,
               !.overlap = PtiBusy, !.prev = lastDone,
               !.closed = IF pc = "closing" THEN Len(svc[User].clients) ELSE 0]

CanStartUserOp == made[User] /\ nops < MaxOps /\ ~ServiceProbing

\* the record of a returned processToolInvocations call is dropped when the
\* next operation starts
PtiAtStart == IF pti.pc = "done" THEN PtiIdle ELSE pti

\* updateConfig up to the first await (inside _closeClients)
UpdateConfigStart(c) ==
  /\ CanStartUserOp
  /\ ~MainBusy(User)
  /\ ~PtiBusy
  /\ svc' = [svc EXCEPT ![User].config = c]
  /\ main' = [main EXCEPT ![User] = StartMain("updateConfig", "closing", c)]
  /\ nops' = nops + 1
  /\ overlapped' = (overlapped \/ PtiBusy)
  /\ pti' = PtiAtStart
  /\ UNCHANGED <<globalConfig, globalMetadataCache, isNode, made, lastDone>>
  /\ Finish({}, CloseAll(handles, svc[User].clients, User), FALSE)

\* cleanup up to the first await (inside _closeClients)
CleanupStart ==
  /\ made[User]
  /\ ~ServiceProbing
  /\ ~MainBusy(User)
  /\ PtiBusy => ~main[User].overlap
  /\ main' = [main EXCEPT ![User] = StartMain("cleanup", "closing", svc[User].config)]
  /\ UNCHANGED nops
  /\ overlapped' = (overlapped \/ PtiBusy)
  /\ pti' = PtiAtStart
  /\ UNCHANGED <<globalConfig, globalMetadataCache, isNode, made, svc, lastDone>>
  /\ Finish({}, CloseAll(handles, svc[User].clients, User), FALSE)

\* the per-server tasks _createClients starts, each suspended in _createMCPClient
BulkTasks(inst) ==
  [s \in DOMAIN McpServers(inst.config) |->
     Task("connecting", NoClient, CreateMCPClientError(inst.config, s, isNode))]

\* the condition under which _createClients returns without connecting
SkipCreate(inst, gc, cache) == CacheHit(inst, gc, cache) /\ ~inst.forceCreateClients

\* _closeClients resumes after Promise.allSettled and returns to its caller:
\* cleanup returns; _createClients takes the cached path or starts the tasks
CloseClientsDone(i) ==
  /\ Sched(i)
  /\ main[i].pc = "closing"
  /\ LET inst == ClearInst(svc[i]) IN
       /\ svc' = [svc EXCEPT ![i] = inst]
       /\ IF main[i].op = "cleanup"
            THEN /\ main' = [main EXCEPT ![i].pc = "done"]
                 /\ lastDone' = IF i = User THEN Done("cleanup", main[i].closed) ELSE lastDone
            ELSE IF SkipCreate(inst, globalConfig, globalMetadataCache)
            THEN /\ main' = [main EXCEPT ![i].pc = "done", ![i].path = "cached",
                                         ![i].ret = inst.mcpToolsPerServer]
                 /\ lastDone' = IF i = User THEN Done(main[i].op, 0) ELSE lastDone
            ELSE /\ main' = [main EXCEPT ![i].pc = "probing", ![i].path = "probed",
                                         ![i].tasks = BulkTasks(inst)]
                 /\ UNCHANGED lastDone
  /\ UNCHANGED <<globalConfig, globalMetadataCache, isNode, made, nops, overlapped, pti>>
  /\ Finish({}, CloseSettled(handles, i), FALSE)

\* every failed connection reported by the fixed re-probe message
ConnectFailureFixed(op, e) == ErrProbeConnect

\* the error string stored when the connection of a task fails
ConnectFailure(op, e) == IF op = "check" THEN ErrProbeConnect ELSE e

\* await _createMCPClient resumes in a task of _createClients or of
\* checkServersAvailabilities: push the client and call tools(), or catch
ConnectDone(i, s, ok) ==
  /\ Sched(i)
  /\ main[i].pc = "probing"
  /\ s \in DOMAIN main[i].tasks
  /\ main[i].tasks[s].pc = "connecting"
  /\ LET t == main[i].tasks[s]
         h == <<i, main[i].id, s>>
         via == IF main[i].op = "check" THEN "probe" ELSE "bulk"
         e == IF t.err = "" THEN ErrConnect ELSE t.err
     IN  /\ t.err # "" => ~ok
         /\ IF ok
            THEN /\ svc' = [svc EXCEPT ![i].clients = Append(@, h)]
                 /\ main' = [main EXCEPT ![i].tasks[s] = [t EXCEPT !.pc = "listing", !.client = h]]
            ELSE /\ svc' = [svc EXCEPT ![i].mcpToolsPerServer =
                              Put(@, s, Unavailable(NoClient, ConnectFailure(main[i].op, e)))]
                 /\ main' = [main EXCEPT ![i].tasks[s] =
                              [t EXCEPT !.pc = "done", !.err = e, !.outcome = "connfail"]]
         /\ UNCHANGED <<globalConfig, globalMetadataCache, isNode, made, nops,
                        lastDone, overlapped, pti>>
         /\ Finish({}, IF ok THEN Put(handles, h, NewHandle(s, via)) ELSE handles,
                   ~ok /\ t.err = "")

\* await client.tools() resumes in a task: register and mark available, or catch
ListDone(i, s, ok) ==
  /\ Sched(i)
  /\ main[i].pc = "probing"
  /\ s \in DOMAIN main[i].tasks
  /\ main[i].tasks[s].pc = "listing"
  /\ LET t == main[i].tasks[s]
         h == t.client
     IN  /\ handles[h].state = "closed" => ~ok
         /\ IF ok
            THEN /\ svc' = [svc EXCEPT ![i] =
                        [_registerTools(svc[i], s, h, ServerTools(s)) EXCEPT
                           !.mcpToolsPerServer = Put(@, s, Available(h, ServerTools(s)))]]
                 /\ main' = [main EXCEPT ![i].tasks[s] = [t EXCEPT !.pc = "done", !.outcome = "ok"]]
            ELSE /\ svc' = [svc EXCEPT ![i].mcpToolsPerServer =
                               Put(@, s, Unavailable(h, ErrListing))]
                 /\ main' = [main EXCEPT ![i].tasks[s] =
                               [t EXCEPT !.pc = "done", !.err = ErrListing, !.outcome = "listfail"]]
         /\ UNCHANGED <<globalConfig, globalMetadataCache, isNode, made, nops, lastDone,
                        overlapped, pti>>
         /\ Finish(IF ok THEN RegisterWarnings(svc[i], s, ServerTools(s)) ELSE {},
                   UseHandle(handles, h, i), ~ok /\ handles[h].state # "closed")

\* the snapshot updateGlobalConfig stores
Snapshot(inst) ==
  [isNull |-> FALSE,
   toolsWithoutExecute |-> inst.toolsWithoutExecute,
   toolNamesToServerNames |-> inst.toolNamesToServerNames,
   mcpToolsPerServer |-> inst.mcpToolsPerServer]

\* Promise.allSettled of the tasks resumes: updateConfig and
\* checkServersAvailabilities return the status map; updateGlobalConfig
\* stores the snapshot and calls close() on its clients
Join(i) ==
  /\ ~ServiceProbing
  /\ main[i].pc = "probing"
  /\ \A s \in DOMAIN main[i].tasks : main[i].tasks[s].pc = "done"
  /\ IF main[i].op = "updateGlobal"
     THEN /\ globalMetadataCache' = Snapshot(svc[i])
          /\ main' = [main EXCEPT ![i].pc = "closing2"]
          /\ UNCHANGED lastDone
     ELSE /\ main' = [main EXCEPT ![i].pc = "done", ![i].ret = svc[i].mcpToolsPerServer]
          /\ lastDone' = IF i = User THEN Done(main[i].op, 0) ELSE lastDone
          /\ UNCHANGED globalMetadataCache
  /\ UNCHANGED <<globalConfig, isNode, made, svc, nops, overlapped, pti>>
  /\ Finish({}, IF main[i].op = "updateGlobal"
                  THEN CloseAll(handles, svc[i].clients, i) ELSE handles, FALSE)

\* the second _closeClients of updateGlobalConfig resumes; the call returns
\* globalMetadataCache.mcpToolsPerServer as it is then
UpdateGlobalConfigReturn(k) ==
  /\ ~ServiceProbing
  /\ main[k].pc = "closing2"
  /\ svc' = [svc EXCEPT ![k] = ClearInst(@)]
  /\ main' = [main EXCEPT ![k].pc = "done", ![k].ret = globalMetadataCache.mcpToolsPerServer]
  /\ UNCHANGED <<globalConfig, globalMetadataCache, isNode, made, nops, lastDone, overlapped, pti>>
  /\ Finish({}, CloseSettled(handles, k), FALSE)

\* the tasks checkServersAvailabilities starts from the entries of the status map
ProbeTasks(inst) ==
  [s \in DOMAIN inst.mcpToolsPerServer |->
     IF inst.mcpToolsPerServer[s].client = NoClient
       THEN Task("connecting", NoClient, CreateMCPClientError(inst.config, s, isNode))
       ELSE Task("listing", inst.mcpToolsPerServer[s].client, "")]

\* checkServersAvailabilities up to its first await, or to its return on the
\* cached path
CheckStart ==
  /\ CanStartUserOp
  /\ ~MainBusy(User)
  /\ ~PtiBusy
  /\ nops' = nops + 1
  /\ overlapped' = (overlapped \/ PtiBusy)
  /\ pti' = PtiAtStart
  /\ IF CacheHit(svc[User], globalConfig, globalMetadataCache)
     THEN /\ main' = [main EXCEPT ![User] =
                 [StartMain("check", "done", svc[User].config) EXCEPT
                    !.path = "cached", !.ret = svc[User].mcpToolsPerServer]]
          /\ lastDone' = Done("check", 0)
          /\ UNCHANGED svc
     ELSE /\ svc' = [svc EXCEPT ![User].tools = EmptyMap,
                                ![User].toolsWithoutExecute = EmptyMap,
                                ![User].toolNamesToServerNames = EmptyMap]
          /\ main' = [main EXCEPT ![User] =
                 [StartMain("check", "probing", svc[User].config) EXCEPT
                    !.path = "probed", !.tasks = ProbeTasks(svc[User])]]
          /\ UNCHANGED lastDone
  /\ UNCHANGED <<globalConfig, globalMetadataCache, isNode, made>>
  /\ Finish({}, handles, FALSE)

\* ------------------------------------------------ processToolInvocations
Inv(name, res) == [type |-> "tool-invocation", toolName |-> name, result |-> res]

\* the parts a last message is made of: approved invocations of the two
\* capabilities, a rejected one and one without an approval outcome ("none")
PartChoices ==
  {Inv("search", APPROVE), Inv("ta", APPROVE), Inv("search", REJECT), Inv("search", "none")}

Messages(n) == UNION {[1..k -> PartChoices] : k \in 0..n}

\* a part that is not a tool invocation
TextPart == [type |-> "text", toolName |-> "", result |-> "none"]

\* the parts the callback returns as they are: a text part, an approved
\* invocation of a name no server has, an invocation whose outcome ("other")
\* is neither approve nor reject, and one without an outcome
PassChoices ==
  {TextPart, Inv("nope", APPROVE), Inv("search", "other"), Inv("search", "none")}

\* every kind of part
FrameChoices == PartChoices \cup PassChoices

\* every kind of part, with one capability
OneToolChoices == PassChoices \cup {Inv("search", APPROVE), Inv("search", REJECT)}

OneToolMessages(n) == UNION {[1..k -> OneToolChoices] : k \in 0..n}

\* the values of toolInvocation.result for which !invocationResult holds:
\* no result ("none" is undefined) and the empty string
Falsy == {"none", ""}

\* the lookup that consults the executable namespace
isValidToolNameBound(inst, n) == n \in DOMAIN inst.tools

isValidToolName(inst, n) ==
  n \in DOMAIN inst.toolsWithoutExecute \/ n \in DOMAIN inst.toolNamesToServerNames

PartKey(p) == "p" \o ToString(p)

\* lazy: how the _getOrCreateLazyClient call of the part ended, "" when it
\* made none or got the memoized client: "ok", "connfail" or "listfail"
PartInit(known) ==
  [pc |-> "done", resolved |-> FALSE, result |-> "", owner |-> "", client |-> NoClient,
   bind |-> NoClient, err |-> "", executed |-> FALSE, known |-> known, lazy |-> ""]

Resolve(st, r) == [st EXCEPT !.pc = "done", !.resolved = TRUE, !.result = r]

\* lines 565-586: the binding read after the lazy step; execute is called,
\* or the part resolves to TOOL_NO_EXECUTE_FUNCTION
AfterLazy(inst, st, name) ==
  IF name \in DOMAIN inst.tools /\ inst.tools[name].execute
    THEN [st EXCEPT !.pc = "executing", !.executed = TRUE, !.bind = inst.tools[name].handle]
    ELSE Resolve(st, TOOL_NO_EXECUTE_FUNCTION)

\* _getOrCreateLazyClient up to its first await
LazyPrefix(inst, st, s) ==
  IF s \in DOMAIN inst.lazyClients THEN [st EXCEPT !.pc = "lazyRet"]
  ELSE IF s \notin DOMAIN McpServers(inst.config) THEN [st EXCEPT !.pc = "lazyRet"]
  ELSE [st EXCEPT !.pc = "connecting", !.err = CreateMCPClientError(inst.config, s, isNode)]

\* the lookup that takes the first server advertising the name
FirstAdvertiser(inst, name) ==
  IF name \in DOMAIN inst.toolNamesToServerNames
    THEN IF name \in ServerTools("A") THEN "A" ELSE "B"
  ELSE ""

\* line 555: this._toolNamesToServerNames.get(toolName); "" is undefined
OwningServer(inst, name) ==
  IF name \in DOMAIN inst.toolNamesToServerNames THEN inst.toolNamesToServerNames[name]
  ELSE ""

\* the reject branch treated like the approve branch
OnRejectExecute(inst, st, name) == AfterLazy(inst, st, name)

\* lines 587-588: the branch of the reject outcome
OnReject(inst, st, name) == Resolve(st, TOOL_EXECUTION_DENIED)

\* the callback of parts.map up to its first await, or to its return
PartPrefix(inst, part) ==
  LET name == part.toolName
      st0 == PartInit(part.type = "tool-invocation" /\ isValidToolName(inst, name))
      serverName == OwningServer(inst, name)
      st1 == [st0 EXCEPT !.owner = serverName]
  IN  IF part.type # "tool-invocation" THEN st0
      ELSE IF ~isValidToolName(inst, name) THEN st0
      ELSE IF part.result \in Falsy THEN st0
      ELSE IF part.result = APPROVE THEN
             IF serverName # "" /\ name \notin DOMAIN inst.tools
               THEN LazyPrefix(inst, st1, serverName)
               ELSE AfterLazy(inst, st1, name)
      ELSE IF part.result = REJECT THEN OnReject(inst, st1, name)
      ELSE st0

\* a call start that writes no event
PrefixStreamNone(st) == [p \in DOMAIN st |-> << >>]

\* the tool_result events the parts write before their first await
PrefixStream(st) ==
  [p \in DOMAIN st |-> IF st[p].pc = "done" /\ st[p].resolved THEN <<st[p].result>> ELSE << >>]

\* processToolInvocations up to Promise.all: every callback of parts.map
\* runs to its first await.  earlier are the messages before the last one and
\* msg the parts of the last one.
PtiCall(earlier, msg, again) ==
  /\ CanStartUserOp
  /\ ~PtiBusy
  /\ MainBusy(User) => main[User].op = "cleanup"
  /\ LET st == [p \in 1..Len(msg) |-> PartPrefix(svc[User], msg[p])] IN
       pti' = [pc |-> "running", id |-> nops + 1, parts |-> msg, st |-> st,
               stream |-> PrefixStream(st), out |-> << >>,
               earlier |-> earlier, again |-> again, ret |-> << >>]
  /\ main' = [main EXCEPT ![User] = IF MainBusy(User) THEN [@ EXCEPT !.overlap = TRUE]
                                                      ELSE Idle]
  /\ nops' = nops + 1
  /\ overlapped' = (overlapped \/ MainBusy(User))
  /\ UNCHANGED <<globalConfig, globalMetadataCache, isNode, made, svc, lastDone>>
  /\ Finish({}, handles, FALSE)

\* a call whose messages are the last message alone
PtiStart(msg) == PtiCall(<< >>, msg, FALSE)

\* the part after its result is known: the tool_result event is written
Written(p, st) ==
  IF st.pc = "done" /\ st.resolved THEN [pti.stream EXCEPT ![p] = Append(@, st.result)]
  ELSE pti.stream

PartStep(p, st) == pti' = [pti EXCEPT !.st[p] = st, !.stream = Written(p, st)]

PartAt(p, pc) == ~ServiceProbing /\ PtiBusy /\ p \in DOMAIN pti.st /\ pti.st[p].pc = pc

\* await _createMCPClient resumes in _getOrCreateLazyClient: memoize, push
\* and call tools(); or catch, return null and go on at line 565
PtiConnectDone(p, ok) ==
  /\ PartAt(p, "connecting")
  /\ LET st == pti.st[p]
         s == st.owner
         h == <<User, pti.id, PartKey(p)>>
     IN  /\ st.err # "" => ~ok
         /\ IF ok
            THEN /\ svc' = [svc EXCEPT ![User].lazyClients = Put(@, s, h),
                                       ![User].clients = Append(@, h)]
                 /\ PartStep(p, [st EXCEPT !.pc = "listing", !.client = h])
            ELSE /\ PartStep(p, AfterLazy(svc[User], [st EXCEPT !.lazy = "connfail"],
                                          pti.parts[p].toolName))
                 /\ UNCHANGED svc
         /\ UNCHANGED <<globalConfig, globalMetadataCache, isNode, made, main, nops,
                        lastDone, overlapped>>
         /\ Finish({}, IF ok THEN Put(handles, h, NewHandle(s, "lazy")) ELSE handles,
                   ~ok /\ st.err = "")

\* a splice that binds every tool the server advertises
SpliceAdvertised(inst, s, h, names) ==
  [inst EXCEPT !.tools = [n \in (DOMAIN @) \cup names |->
                             IF n \in names THEN Tool(s, h) ELSE @[n]]]

\* lines 501-505: the executable bindings of the tools the index gives to s
Splice(inst, s, h, names) ==
  LET mine == {n \in names : n \in DOMAIN inst.toolNamesToServerNames
                              /\ inst.toolNamesToServerNames[n] = s}
  IN  [inst EXCEPT !.tools = [n \in (DOMAIN @) \cup mine |->
                                 IF n \in mine THEN Tool(s, h) ELSE @[n]]]

\* await client.tools() resumes in _getOrCreateLazyClient: splice and return
\* the client, or catch and return null; the part goes on at line 565
PtiListDone(p, ok) ==
  /\ PartAt(p, "listing")
  /\ LET st == pti.st[p]
         h == st.client
         inst == IF ok THEN Splice(svc[User], st.owner, h, ServerTools(st.owner))
                       ELSE svc[User]
     IN  /\ handles[h].state = "closed" => ~ok
         /\ svc' = [svc EXCEPT ![User] = inst]
         /\ PartStep(p, AfterLazy(inst, [st EXCEPT !.lazy = IF ok THEN "ok" ELSE "listfail"],
                                  pti.parts[p].toolName))
         /\ UNCHANGED <<globalConfig, globalMetadataCache, isNode, made, main, nops,
                        lastDone, overlapped>>
         /\ Finish({}, UseHandle(handles, h, User), ~ok /\ handles[h].state # "closed")

\* await _getOrCreateLazyClient resumes after a memo hit or a missing config
PtiLazyReturn(p) ==
  /\ PartAt(p, "lazyRet")
  /\ PartStep(p, AfterLazy(svc[User], pti.st[p], pti.parts[p].toolName))
  /\ UNCHANGED <<globalConfig, globalMetadataCache, isNode, made, svc, main, nops,
                 lastDone, overlapped>>
  /\ Finish({}, handles, FALSE)

\* what the tool's execute function does: returns a value or raises
ExecOutcomes == {"value", "raise"}

\* the result of execute without the catch
ExecResultUncaught(o) == o

\* lines 573-582: the result of the try/catch around execute
ExecResult(o) == IF o = "raise" THEN TOOL_EXECUTION_ERROR ELSE o

\* await toolInstance.execute resumes
PtiExecDone(p, o) ==
  /\ PartAt(p, "executing")
  /\ handles[pti.st[p].bind].state = "closed" => o = "raise"
  /\ PartStep(p, [Resolve(pti.st[p], ExecResult(o)) EXCEPT !.err = o])
  /\ UNCHANGED <<globalConfig, globalMetadataCache, isNode, made, svc, main, nops,
                 lastDone, overlapped>>
  /\ Finish({}, handles, o = "raise" /\ handles[pti.st[p].bind].state # "closed")

\* a return that attaches the result slot of every part
OutPartAlways(part, st) == [part EXCEPT !.result = st.result]

\* lines 603-609: the part returned for part p
OutPart(part, st) == IF st.resolved THEN [part EXCEPT !.result = st.result] ELSE part

\* line 614: the messages returned, the last one with the processed parts
Returned(earlier, out) == earlier \o <<[parts |-> out]>>

\* Promise.all resumes: the processed parts are returned
PtiReturn ==
  /\ ~ServiceProbing
  /\ PtiBusy
  /\ \A p \in DOMAIN pti.st : pti.st[p].pc = "done"
  /\ LET out == [p \in DOMAIN pti.parts |-> OutPart(pti.parts[p], pti.st[p])] IN
       pti' = [pti EXCEPT !.pc = "done", !.out = out, !.ret = Returned(pti.earlier, out)]
  /\ lastDone' = Done("pti", 0)
  /\ UNCHANGED <<globalConfig, globalMetadataCache, isNode, made, svc, main, nops, overlapped>>
  /\ Finish({}, handles, FALSE)

\* ------------------------------------------------- synchronous methods
\* the names a caller asks about: the advertised ones and one no server has
Names == {"search", "ta", "nope"}

\* a synchronous method is called on the instance between its operations
CanQuery == made[User] /\ ~ServiceProbing /\ ~MainBusy(User) /\ ~PtiBusy

\* the instance, the globals and the handles as a synchronous method leaves them
QueryFrame ==
  /\ logWarn' = {}
  /\ UNCHANGED <<globalConfig, globalMetadataCache, isNode, made, svc, main, handles,
                 nops, lastDone, nfail, overlapped, pti, entry>>
  /\ UNCHANGED storeVars

\* isValidToolName(toolName) called by the user of the instance
IsValidToolNameCall(n) ==
  /\ CanQuery
  /\ called' = Call("isValidToolName", n, isValidToolName(svc[User], n), << >>)
  /\ QueryFrame

\* processToolCall: the annotation written, or the TypeError of destructuring
\* this.toolsWithoutExecute[toolName] when it is undefined
processToolCall(inst, n) ==
  IF ~isValidToolName(inst, n) THEN Call("processToolCall", n, "", << >>)
  ELSE IF n \notin DOMAIN inst.toolsWithoutExecute
    THEN Call("processToolCall", n, ErrTypeError, << >>)
  ELSE IF OwningServer(inst, n) # ""
    THEN Call("processToolCall", n, "", <<n, OwningServer(inst, n)>>)
  ELSE Call("processToolCall", n, "", << >>)

ProcessToolCallCall(n) ==
  /\ CanQuery
  /\ called' = processToolCall(svc[User], n)
  /\ QueryFrame

\* ------------------------------------------------------ specifications
\* updateGlobalConfig is called once, at startup, and has returned before the
\* instance is constructed
Startup(c) == ~made[User] /\ UpdateGlobalConfigStart(1, c)

Request(c) == (\A k \in Services : ~MainBusy(k)) /\ Construct(c)

\* the steps of the service instance of updateGlobalConfig and of the bulk,
\* probe and cleanup operations of the user instance
MainStep ==
  \/ \E i \in Insts : CloseClientsDone(i)
  \/ \E i \in Insts, s \in Servers, ok \in BOOLEAN : ConnectDone(i, s, ok)
  \/ \E i \in Insts, s \in Servers, ok \in BOOLEAN : ListDone(i, s, ok)
  \/ \E i \in Insts : Join(i)
  \/ \E k \in Services : UpdateGlobalConfigReturn(k)

\* the steps of a processToolInvocations call in progress
PtiStep ==
  \/ \E p \in 1..MaxParts, ok \in BOOLEAN : PtiConnectDone(p, ok)
  \/ \E p \in 1..MaxParts, ok \in BOOLEAN : PtiListDone(p, ok)
  \/ \E p \in 1..MaxParts, o \in ExecOutcomes : PtiExecDone(p, o)
  \/ PtiReturn

\* Spec: one instance after startup whose operations run one after another:
\* each is called when the one before has returned.
SeqCleanup == ~PtiBusy /\ CleanupStart

SeqCall(msg) == ~MainBusy(User) /\ PtiStart(msg)

Next ==
  \/ \E c \in Configs : Startup(c)
  \/ \E c \in Configs \cup {"none"} : Request(c)
  \/ \E c \in Configs : UpdateConfigStart(c)
  \/ SeqCleanup
  \/ CheckStart
  \/ \E msg \in Messages(MaxSeqParts) : SeqCall(msg)
  \/ MainStep
  \/ PtiStep
  \/ \E p \in 1..MaxSeqParts : PtiLazyReturn(p)

Spec == Init /\ [][Next]_vars

\* SpecCall: one processToolInvocations call, the first operation of an
\* instance constructed after startup.  (The memo of lazy clients is empty
\* when the call starts, so no part takes the memoized return.)
FirstCall(msg) == nops = 0 /\ ~MainBusy(User) /\ PtiStart(msg)

NextCall ==
  \/ \E c \in Configs : Startup(c)
  \/ \E c \in Configs \cup {"none"} : Request(c)
  \/ \E msg \in Messages(MaxParts) : FirstCall(msg)
  \/ MainStep
  \/ PtiStep

SpecCall == Init /\ [][NextCall]_vars

\* SpecOverlap: one processToolInvocations call on an instance constructed
\* after startup, with cleanup called before, during (once) or after it.
OverlapCall(msg) == nops = 0 /\ PtiStart(msg)

NextOverlap ==
  \/ \E c \in Configs : Startup(c)
  \/ \E c \in Configs \cup {"none"} : Request(c)
  \/ \E msg \in Messages(MaxParts) : OverlapCall(msg)
  \/ CleanupStart
  \/ MainStep
  \/ PtiStep

SpecOverlap == Init /\ [][NextOverlap]_vars

\* SpecGlobal: overlapping updateGlobalConfig calls, each with a configuration
\* object of its own, and an instance constructed at any moment that
\* reconfigures itself and checks availability.
Reconfigure(k, c) == (\A j \in Services : main[j].cfg # c) /\ UpdateGlobalConfigStart(k, c)

NextGlobal ==
  \/ \E k \in Services, c \in Configs : Reconfigure(k, c)
  \/ \E c \in Configs \cup {"none"} : Construct(c)
  \/ \E c \in Configs : UpdateConfigStart(c)
  \/ CheckStart
  \/ MainStep

SpecGlobal == Init /\ [][NextGlobal]_vars

\* SpecRequest: a request instance built from the snapshot of the startup
\* call, on which the synchronous methods, checkServersAvailabilities and
\* processToolInvocations (on a last message with no part or with one part
\* of any kind) are called one after another.
RequestMessages == {<< >>} \cup {<<part>> : part \in FrameChoices}

RequestInstance == ~globalMetadataCache.isNull /\ Request("none")

NextRequest ==
  \/ \E c \in Configs : Startup(c)
  \/ RequestInstance
  \/ \E n \in Names : IsValidToolNameCall(n)
  \/ \E n \in Names : ProcessToolCallCall(n)
  \/ CheckStart
  \/ \E msg \in RequestMessages : SeqCall(msg)
  \/ MainStep
  \/ PtiStep
  \/ \E p \in 1..MaxSeqParts : PtiLazyReturn(p)

SpecRequest == Init /\ [][NextRequest]_vars

\* SpecValidate: _validateServerConfig applied on its own to every raw entry
InitValidate ==
  /\ InitService
  /\ entry \in {Entry(s, raw) : s \in Servers, raw \in RawEntries}
  /\ StoreFresh

Validate ==
  /\ entry.result = NotValidated
  /\ entry' = [entry EXCEPT !.result = _validateServerConfig(entry.raw),
                            !.config = ConfigAfter(entry.raw)]
  /\ UNCHANGED <<globalConfig, globalMetadataCache, isNode, made, svc, main, handles,
                 logWarn, nops, lastDone, nfail, overlapped, pti, called>>
  /\ UNCHANGED storeVars

NextValidate == Validate

SpecValidate == InitValidate /\ [][NextValidate]_vars

\* ------------------------------------------- the actions of useMCPStore
\* what the claims compare: the settings and serverTools of the store and the
\* saved item
Kept(st, item) == [settings |-> st.settings, serverTools |-> st.serverTools,
                   persisted |-> item]

Finished(calls) == {j \in DOMAIN calls : calls[j].pc = "done"}

\* a call: pc is "fetching" (await fetch), "parsing" (await response.json())
\* or "done"; outcome is "returned", "skipped" (returned at the guard) or
\* "threw"; before and doneAtStart are what the call found when it was made
StoreCall(op, pc, arg, outcome) ==
  [op |-> op, pc |-> pc, arg |-> arg, outcome |-> outcome,
   before |-> Kept(store, localStorage), doneAtStart |-> Finished(storeCalls)]

CanCallStore == Len(storeCalls) < MaxStoreCalls

StoreFrame == UNCHANGED serviceVars /\ UNCHANGED isBrowser

\* the configuration names at least one server (line 52)
HasServers(settings) == DOMAIN McpServers(settings.mcpConfig) # {}

\* initialize() up to its first await, or to its end when it makes no request;
\* full: localStorage.setItem throws
InitializeCall(full) ==
  /\ CanCallStore
  /\ StoreFrame
  /\ LET saved == Parse(localStorage)
         ready(st) == [st EXCEPT !.isInitialized = TRUE]
         ends(out) == storeCalls' = Append(storeCalls,
                        StoreCall("initialize", "done", defaultSettings, out))
     IN  IF store.isInitialized
           THEN ends("skipped") /\ UNCHANGED <<store, localStorage>>
         ELSE IF ~isBrowser
           THEN ends("returned") /\ store' = ready(store) /\ UNCHANGED localStorage
         ELSE IF localStorage = NoItem
           THEN IF full
                  THEN ends("threw") /\ UNCHANGED <<store, localStorage>>
                  ELSE /\ ends("returned")
                       /\ localStorage' = Stringify(defaultSettings)
                       /\ store' = ready([store EXCEPT !.settings = defaultSettings,
                                            !.serverTools = EmptyTools, !.error = ""])
         ELSE IF ~saved.ok
           THEN /\ ends("returned")
                /\ store' = ready([store EXCEPT !.settings = defaultSettings,
                                     !.serverTools = EmptyTools, !.error = ErrParseSaved])
                /\ UNCHANGED localStorage
         ELSE IF HasServers(saved.value)
           THEN /\ storeCalls' = Append(storeCalls,
                      StoreCall("initialize", "fetching", saved.value, ""))
                /\ UNCHANGED <<store, localStorage>>
         ELSE /\ ends("returned")
              /\ store' = ready([store EXCEPT !.settings = saved.value,
                                   !.serverTools = EmptyTools, !.error = ""])
              /\ UNCHANGED localStorage

\* a guard that lets every call through
UpdateGuardOpen(st) == FALSE

\* line 87: the guard of updateSettings
UpdateGuard(st) == st.isUpdatingConfig

\* updateSettings(newSettings) up to its first await, or to the return at
\* the guard
UpdateSettingsCall(newSettings) ==
  /\ CanCallStore
  /\ StoreFrame
  /\ UNCHANGED localStorage
  /\ IF UpdateGuard(store)
       THEN /\ storeCalls' = Append(storeCalls,
                   StoreCall("updateSettings", "done", newSettings, "skipped"))
            /\ UNCHANGED store
       ELSE /\ storeCalls' = Append(storeCalls,
                   StoreCall("updateSettings", "fetching", newSettings, ""))
            /\ store' = [store EXCEPT !.isUpdatingConfig = TRUE]

\* checkServersAvailabilities() up to its first await
CheckServersCall ==
  /\ CanCallStore
  /\ StoreFrame
  /\ UNCHANGED <<store, localStorage>>
  /\ storeCalls' = Append(storeCalls,
        StoreCall("checkServersAvailabilities", "fetching", defaultSettings, ""))

\* a failure that also empties serverTools
UpdateFailedEmptied(st) == [st EXCEPT !.isUpdatingConfig = FALSE, !.serverTools = EmptyTools]

\* lines 101-105: the store after updateSettings caught an error
UpdateFailed(st) == [st EXCEPT !.isUpdatingConfig = FALSE]

\* the request of call id has failed: fetch rejected, the response was not
\* ok, or its body could not be read
RequestFailed(id) ==
  LET call == storeCalls[id] IN
  /\ UNCHANGED localStorage
  /\ IF call.op = "updateSettings"
       THEN /\ store' = UpdateFailed(store)
            /\ storeCalls' = [storeCalls EXCEPT ![id].pc = "done", ![id].outcome = "threw"]
     ELSE IF call.op = "initialize"
       THEN /\ store' = [store EXCEPT !.settings = call.arg, !.serverTools = EmptyTools,
                                      !.error = ErrInitServers, !.isInitialized = TRUE]
            /\ storeCalls' = [storeCalls EXCEPT ![id].pc = "done", ![id].outcome = "returned"]
     ELSE /\ UNCHANGED store
          /\ storeCalls' = [storeCalls EXCEPT ![id].pc = "done", ![id].outcome = "threw"]

FetchOutcomes == {"ok", "status", "rejected"}

\* await fetch(...) resumes in call id: response.json() is called when the
\* response is ok
FetchDone(id, r) ==
  /\ id \in DOMAIN storeCalls
  /\ storeCalls[id].pc = "fetching"
  /\ StoreFrame
  /\ IF r = "ok"
       THEN /\ storeCalls' = [storeCalls EXCEPT ![id].pc = "parsing"]
            /\ UNCHANGED <<store, localStorage>>
       ELSE RequestFailed(id)

\* await response.json() resumes in call id with the body data, or fails;
\* full: localStorage.setItem throws
JsonDone(id, ok, data, full) ==
  /\ id \in DOMAIN storeCalls
  /\ storeCalls[id].pc = "parsing"
  /\ StoreFrame
  /\ LET call == storeCalls[id]
         ends(out) == storeCalls' = [storeCalls EXCEPT ![id].pc = "done", ![id].outcome = out]
     IN  IF ~ok THEN RequestFailed(id)
         ELSE IF call.op = "updateSettings"
           THEN /\ data = ToolsOf(call.arg.mcpConfig)
                /\ IF isBrowser /\ full
                     THEN /\ ends("threw")
                          /\ store' = UpdateFailed(store)
                          /\ UNCHANGED localStorage
                     ELSE /\ ends("returned")
                          /\ localStorage' = IF isBrowser THEN Stringify(call.arg)
                                                          ELSE localStorage
                          /\ store' = [store EXCEPT !.settings = call.arg,
                                                    !.serverTools = data,
                                                    !.isUpdatingConfig = FALSE]
         ELSE IF call.op = "initialize"
           THEN /\ data = ToolsOf(call.arg.mcpConfig)
                /\ ends("returned")
                /\ store' = [store EXCEPT !.settings = call.arg, !.serverTools = data,
                                          !.error = "", !.isInitialized = TRUE]
                /\ UNCHANGED localStorage
         ELSE /\ ends("returned")
              /\ store' = [store EXCEPT !.serverTools = data]
              /\ UNCHANGED localStorage

\* the bodies a response can carry
Bodies == {ToolsOf(c) : c \in {"Cfg1", "Cfg2", "Default"}}

\* SpecStore: the calls made to the store, overlapping in every way, in or
\* out of a browser, whatever item was saved
InitStore ==
  /\ InitService
  /\ isNode = TRUE
  /\ entry = NoEntry
  /\ isBrowser \in BOOLEAN
  /\ localStorage \in {NoItem, Garbage} \cup {Stringify(x) : x \in StoreSettings}
  /\ store = StoreInit
  /\ storeCalls = << >>

NextStore ==
  \/ \E full \in BOOLEAN : InitializeCall(full)
  \/ \E x \in StoreSettings : UpdateSettingsCall(x)
  \/ CheckServersCall
  \/ \E id \in 1..MaxStoreCalls, r \in FetchOutcomes : FetchDone(id, r)
  \/ \E id \in 1..MaxStoreCalls, ok \in BOOLEAN, data \in Bodies, full \in BOOLEAN :
       JsonDone(id, ok, data, full)

SpecStore == InitStore /\ [][NextStore]_vars

\* SpecFrame: one processToolInvocations call with every kind of part, on
\* messages with or without an earlier message.
EarlierChoices == {<< >>, <<[parts |-> <<Inv("search", APPROVE)>>]>>}

FrameCall(earlier, msg) == nops = 0 /\ ~MainBusy(User) /\ PtiCall(earlier, msg, FALSE)

NextFrame ==
  \/ \E c \in Configs : Startup(c)
  \/ \E c \in Configs \cup {"none"} : Request(c)
  \/ \E earlier \in EarlierChoices, msg \in OneToolMessages(MaxParts) : FrameCall(earlier, msg)
  \/ MainStep
  \/ PtiStep

SpecFrame == Init /\ [][NextFrame]_vars

\* SpecAgain: the call of SpecFrame on capabilities that may return the
\* approval markers or a falsy value; then the same instance is given the
\* messages the call returned.  MarkerReturns are the values execute may
\* return besides an ordinary one: the two markers and the empty string.
MarkerReturns == {APPROVE, REJECT, ""}

Reapply ==
  /\ pti.pc = "done"
  /\ ~pti.again
  /\ ~MainBusy(User)
  /\ PtiCall(pti.earlier, pti.out, TRUE)

NextAgain ==
  \/ NextFrame
  \/ Reapply
  \/ \E p \in 1..MaxParts, o \in MarkerReturns : PtiExecDone(p, o)

SpecAgain == Init /\ [][NextAgain]_vars

\* ---------------------------------------------------------------- claims
\* the handle the lazy step of part p of the current call opens
LazyOf(p) == <<User, pti.id, PartKey(p)>>

ApprovedKnown(p) ==
  /\ pti.parts[p].type = "tool-invocation"
  /\ pti.parts[p].result = APPROVE
  /\ pti.st[p].known

\* C1: within one processToolInvocations call that no other operation of the
\* instance overlaps, the approved invocations owned by one server open at
\* most one connection to it: no two parts hold lazy connections of their
\* own to the same server.
C1_OneLazyConnectionPerServer ==
  ~main[User].overlap =>
    \A p, q \in DOMAIN pti.st :
      (/\ LazyOf(p) \in DOMAIN handles
       /\ LazyOf(q) \in DOMAIN handles
       /\ handles[LazyOf(p)].server = handles[LazyOf(q)].server) => p = q

\* C2: when checkServersAvailabilities has returned on the cached path, the
\* map it returned is the status map of the process-wide cache.
C2_CachedCheckServesCache ==
  (main[User].op = "check" /\ main[User].pc = "done" /\ main[User].path = "cached")
    => main[User].ret = globalMetadataCache.mcpToolsPerServer

\* C3: a rejected invocation of a known capability is resolved to
\* TOOL_EXECUTION_DENIED, with its tool_result event, and execute is never
\* called for it nor a connection opened, whatever the instance holds.
C3_RejectIsDenied ==
  \A p \in DOMAIN pti.st :
    (/\ pti.parts[p].type = "tool-invocation"
     /\ pti.parts[p].result = REJECT
     /\ pti.st[p].known) =>
       /\ ~pti.st[p].executed
       /\ pti.st[p].pc = "done"
       /\ pti.st[p].resolved
       /\ pti.st[p].result = TOOL_EXECUTION_DENIED
       /\ LazyOf(p) \notin DOMAIN handles
       /\ pti.stream[p] = <<TOOL_EXECUTION_DENIED>>
       /\ pti.pc = "done" => pti.out[p].result = TOOL_EXECUTION_DENIED

\* a rejected invocation of "search" was returned by an instance that holds
\* an executable binding for "search"
C3_Witness ==
  /\ pti.pc = "done"
  /\ "search" \in DOMAIN svc[User].tools
  /\ \E p \in DOMAIN pti.parts :
       /\ pti.parts[p] = Inv("search", REJECT)
       /\ pti.out[p].result = TOOL_EXECUTION_DENIED

\* the step in which the execute call of part p raises
Raises(p) ==
  /\ pti.pc = "running"
  /\ pti.st[p].pc = "executing"
  /\ pti'.id = pti.id
  /\ pti'.st[p].pc = "done"
  /\ pti'.st[p].err = "raise"

C4_Step ==
  /\ \A p \in DOMAIN pti.st :
       Raises(p) =>
         /\ pti'.st[p].result = TOOL_EXECUTION_ERROR
         /\ pti'.pc = "running"
         /\ \A q \in DOMAIN pti.st \ {p} : pti'.st[q] = pti.st[q]
         /\ svc' = svc
         /\ main' = main
         /\ handles' = handles
  /\ (pti.pc = "running" /\ pti'.pc = "done") =>
       \A p \in DOMAIN pti.st :
         /\ pti.st[p].err = "raise" => pti'.out[p].result = TOOL_EXECUTION_ERROR
         /\ pti.st[p].err = "value" => pti'.out[p].result = "value"

\* C4: the step in which an execute call raises resolves that invocation to
\* TOOL_EXECUTION_ERROR and changes nothing else: the call keeps running,
\* every sibling part, the instance and the handles are as they were; and the
\* call returns with the error marker on the raising invocation and the
\* value of execute on every invocation whose execute returned.
C4_RaisingExecuteIsContained == [][C4_Step]_vars

\* a call returned with one invocation whose execute raised and a sibling
\* whose execute returned its value
C4_Witness ==
  /\ pti.pc = "done"
  /\ \E p, q \in DOMAIN pti.st :
       /\ pti.st[p].err = "raise"
       /\ pti.out[p].result = TOOL_EXECUTION_ERROR
       /\ pti.st[q].err = "value"
       /\ pti.out[q].result = "value"

\* the step in which a task of instance i registers the tools of server s
Registers(i, s) ==
  /\ main[i].pc = "probing"
  /\ s \in DOMAIN main[i].tasks
  /\ main[i].tasks[s].pc = "listing"
  /\ main'[i].id = main[i].id
  /\ main'[i].tasks[s].outcome = "ok"

C5_Step ==
  \A i \in Insts, s \in Servers :
    Registers(i, s) =>
      \A n \in ServerTools(s) :
        /\ n \in DOMAIN svc'[i].tools
        /\ svc'[i].tools[n] = Tool(s, main[i].tasks[s].client)
        /\ svc'[i].toolsWithoutExecute[n] = Stripped(s)
        /\ svc'[i].toolNamesToServerNames[n] = s
        /\ (n \in DOMAIN svc[i].tools /\ svc[i].tools[n].server # s)
             => <<n, s, svc[i].tools[n].server>> \in logWarn'
        /\ (n \notin DOMAIN svc[i].tools \/ svc[i].tools[n].server = s)
             => \A w \in logWarn' : w[1] # n

\* C5: every registration of the tools of a server leaves, for each of their
\* names, the binding, the stripped entry and the ownership-index entry of
\* that server; when the name was bound to another server before, a
\* tool-conflict warning naming both servers is logged by that registration,
\* and no warning is logged for a name that was not.
C5_LastRegistrationWins == [][C5_Step]_vars

\* "search" was registered by A and then by B, which owns it now, and the
\* registration of B logged the conflict
C5_Witness ==
  \E i \in Insts :
    /\ <<"search", "B", "A">> \in logWarn
    /\ "search" \in DOMAIN svc[i].tools
    /\ svc[i].tools["search"].server = "B"
    /\ svc[i].toolNamesToServerNames["search"] = "B"
    /\ svc[i].toolNamesToServerNames["ta"] = "A"

\* the status entry a bulk task of server s gives from its own outcome
OwnStatus(t) ==
  CASE t.outcome = "ok" -> "available"
    [] OTHER -> "unavailable"

\* C6: when a bulk update that probes has returned, the returned map has
\* one entry for every server of the configuration of the update, and each
\* entry is the one the task of that server produced: available with the
\* listed tools, or unavailable with the error of that task.
C6_BulkUpdateStatusPerServer ==
  \A i \in Insts :
    (/\ main[i].pc = "done"
     /\ main[i].op \in {"updateGlobal", "updateConfig"}
     /\ main[i].path = "probed") =>
       /\ DOMAIN main[i].ret = DOMAIN McpServers(main[i].cfg)
       /\ \A s \in DOMAIN main[i].ret :
            /\ main[i].ret[s].status = OwnStatus(main[i].tasks[s])
            /\ main[i].tasks[s].outcome = "ok" => main[i].ret[s].tools = ServerTools(s)
            /\ main[i].tasks[s].outcome # "ok" => main[i].ret[s].error = main[i].tasks[s].err

\* C7: the connection the lazy step of an approved invocation opens is to
\* the server the ownership index gives for the capability, and to no other
\* server, on an instance no other operation overlaps.
C7_LazyConnectionToOwnerOnly ==
  ~main[User].overlap =>
    \A p \in DOMAIN pti.st :
      LazyOf(p) \in DOMAIN handles =>
        /\ ApprovedKnown(p)
        /\ pti.parts[p].toolName \in DOMAIN svc[User].toolNamesToServerNames
        /\ handles[LazyOf(p)].server = svc[User].toolNamesToServerNames[pti.parts[p].toolName]

\* A and B both advertise "search", the index of the request instance gives
\* it to B, and the approved invocation of "search" has executed on a lazy
\* connection to B while the instance opened no connection to A
C7_Witness ==
  /\ pti.pc = "done"
  /\ ~main[User].overlap
  /\ "search" \in DOMAIN svc[User].toolNamesToServerNames
  /\ svc[User].toolNamesToServerNames["search"] = "B"
  /\ \E p \in DOMAIN pti.st :
       /\ pti.parts[p] = Inv("search", APPROVE)
       /\ pti.st[p].executed
       /\ LazyOf(p) \in DOMAIN handles
       /\ handles[LazyOf(p)].server = "B"
  /\ \A h \in DOMAIN handles : Owner(h) = User => handles[h].server # "A"

\* C8: whenever the cache is set, every client the statuses of the cache
\* carry has been closed.
C8_CacheHoldsNoLiveClient ==
  ~globalMetadataCache.isNull =>
    \A s \in DOMAIN globalMetadataCache.mcpToolsPerServer :
      LET h == globalMetadataCache.mcpToolsPerServer[s].client
      IN  h # NoClient => (h \in DOMAIN handles /\ handles[h].state = "closed")

\* cleanup has returned, and no operation of the instance ran while it did
CleanupAlone ==
  /\ main[User].op = "cleanup"
  /\ main[User].pc = "done"
  /\ ~main[User].overlap
  /\ ~PtiBusy

Cleared(inst) ==
  /\ inst.clients = << >>
  /\ inst.lazyClients = EmptyMap
  /\ inst.tools = EmptyMap
  /\ inst.toolsWithoutExecute = EmptyMap
  /\ inst.toolNamesToServerNames = EmptyMap
  /\ inst.mcpToolsPerServer = EmptyMap

\* C9: after a cleanup that ran with no other operation of the instance in
\* flight, close has been called on every handle the instance opened, and
\* the memo, the namespaces, the index and the status map are empty.
C9_CleanupClosesEveryHandle ==
  CleanupAlone =>
    /\ \A h \in DOMAIN handles : Owner(h) = User => handles[h].closeCalls >= 1
    /\ Cleared(svc[User])

\* C10: while the operations of the instance run one after another, close
\* is called at most once on each handle the instance opened, every handle it
\* opened is closed or still tracked, and a cleanup that follows a cleanup
\* calls close on nothing and leaves the instance cleared.
C10_CleanupIdempotent ==
  ~overlapped =>
    /\ \A h \in DOMAIN handles :
         Owner(h) = User =>
           /\ handles[h].closeCalls <= 1
           /\ handles[h].closeCalls = 0 => h \in Range(svc[User].clients)
    /\ (main[User].op = "cleanup" /\ main[User].prev.op = "cleanup") =>
         /\ main[User].closed = 0
         /\ Cleared(svc[User])
         /\ \A h \in DOMAIN handles : Owner(h) = User => handles[h].state = "closed"

\* a second cleanup has returned after a first that called close on the
\* handles of the instance, all operations having run one after another
C10_Witness ==
  /\ ~overlapped
  /\ main[User].op = "cleanup"
  /\ main[User].pc = "done"
  /\ main[User].prev.op = "cleanup"
  /\ main[User].prev.closed >= 1
  /\ Cleared(svc[User])

\* C11: when updateConfig has returned on the cached path (the configuration
\* passed is globalConfig, the cache is set and creation is not forced), the
\* map it returned is the status map of the cache and the instance knows the
\* capabilities of the cache: its stripped namespace and its ownership index
\* are those of the cache.
C11_CachedUpdateConfigServesCache ==
  (main[User].op = "updateConfig" /\ main[User].pc = "done" /\ main[User].path = "cached") =>
    /\ main[User].ret = globalMetadataCache.mcpToolsPerServer
    /\ svc[User].toolsWithoutExecute = globalMetadataCache.toolsWithoutExecute
    /\ svc[User].toolNamesToServerNames = globalMetadataCache.toolNamesToServerNames

\* a status entry a probe of server s of configuration c can produce
PossibleStatus(c, s, e) ==
  LET err == CreateMCPClientError(c, s, isNode) IN
  IF err # ""
    THEN e.status = "unavailable" /\ e.error \in {err, ErrProbeConnect}
    ELSE \/ e.status = "available" /\ e.tools = ServerTools(s)
         \/ e.status = "unavailable" /\ e.error \in {ErrConnect, ErrListing, ErrProbeConnect}

\* the status map m can be the result of probing the servers of configuration c
ComputedFrom(m, c) ==
  /\ DOMAIN m = DOMAIN McpServers(c)
  /\ \A s \in DOMAIN m : PossibleStatus(c, s, m[s])

\* checkServersAvailabilities has returned on the cached path, as the first
\* operation of a request instance built from the snapshot
RequestCheckCached ==
  /\ main[User].op = "check"
  /\ main[User].pc = "done"
  /\ main[User].path = "cached"
  /\ main[User].prev.op = "snapshot"

\* C12: when checkServersAvailabilities of a request instance has returned
\* on the cached path, the status map it returned was computed from the
\* configuration of the instance (which is globalConfig): it has the servers
\* of that configuration, each with a status a probe of it can give.
C12_CachedStatusOfSameConfig ==
  RequestCheckCached => ComputedFrom(main[User].ret, svc[User].config)

\* C13: tools() and close() are called on a client handle only by the
\* instance that opened it.
C13_HandleUsedByItsOwnerOnly ==
  \A h \in DOMAIN handles : handles[h].users \subseteq {Owner(h)}

\* C14: when checkServersAvailabilities has returned after re-probing, the
\* map it returned has one status entry, available or unavailable, for every
\* server name of the configuration of the instance.
C14_ReprobeCoversConfiguredServers ==
  (main[User].op = "check" /\ main[User].pc = "done" /\ main[User].path = "probed") =>
    /\ DOMAIN main[User].ret = DOMAIN McpServers(svc[User].config)
    /\ \A s \in DOMAIN main[User].ret :
         main[User].ret[s].status \in {"available", "unavailable"}

\* the step is a call of the synchronous method op
Calls(op) == called'.op = op

\* the step leaves the instances, the globals, the handles and the operations
\* in progress as they were
NothingElseChanges ==
  UNCHANGED <<globalConfig, globalMetadataCache, made, svc, main, handles, nops, pti>>

C15_Step ==
  (Calls("isValidToolName") /\ svc[User].clients = << >>) =>
    /\ called'.ret = (called'.name \in DOMAIN globalMetadataCache.toolsWithoutExecute)
    /\ called'.ret = (called'.name \in DOMAIN globalMetadataCache.toolNamesToServerNames)
    /\ NothingElseChanges

C16_ValidationByFieldAndType ==
  entry.result # NotValidated =>
    LET raw == entry.raw
        res == entry.result
        hasCommand == raw.command # "absent"
        hasUrl == raw.url # "absent"
    IN  /\ (raw.command = "ok" /\ ~hasUrl /\ raw.type = "absent")
             => (res.ok /\ res.type = "stdio")
        /\ (hasCommand /\ hasUrl) => ~res.ok
        /\ (~hasCommand /\ ~hasUrl) => ~res.ok
        /\ (raw.type = "stdio" /\ hasUrl /\ ~hasCommand) => ~res.ok
        /\ (raw.type \in {"sse", "streamable-http"} /\ hasCommand /\ ~hasUrl) => ~res.ok

\* the entry with a command and nothing else has been validated as stdio
C16_Witness ==
  /\ entry.raw = Raw("ok", "absent", "absent")
  /\ entry.result.ok
  /\ entry.result.type = "stdio"
  /\ entry.config.type = "stdio"

\* the step makes the callback of part p call _createMCPClient
StartsConnecting(p) ==
  /\ pti'.st[p].pc = "connecting"
  /\ \/ pti.pc # "running"
     \/ pti.id # pti'.id
     \/ pti.st[p].pc # "connecting"

C17_Step ==
  /\ \A p \in DOMAIN pti'.st :
       StartsConnecting(p) =>
         /\ pti'.parts[p].type = "tool-invocation"
         /\ pti'.parts[p].result = APPROVE
         /\ isValidToolName(svc[User], pti'.parts[p].toolName)
         /\ pti'.parts[p].toolName \notin DOMAIN svc[User].tools
  /\ \A h \in (DOMAIN handles') \ (DOMAIN handles) :
       Owner(h) = User =>
         \E p \in DOMAIN pti.st :
           h = LazyOf(p) /\ pti.st[p].pc = "connecting" /\ ApprovedKnown(p)
  /\ \A s \in DOMAIN main'[User].tasks : main'[User].tasks[s].pc # "connecting"
  /\ (Calls("isValidToolName") \/ Calls("processToolCall")) =>
       (handles' = handles /\ pti' = pti /\ main' = main)

\* C17: on a request instance built from the snapshot, a callback calls
\* _createMCPClient only for an approved invocation of a known capability
\* that has no executable binding when the call starts, and every connection
\* of the instance is opened by such a callback; construction,
\* isValidToolName, processToolCall and the cached
\* checkServersAvailabilities start no connection attempt, nor do the parts
\* that are rejected, undecided, of an unrecognised outcome, of an unknown
\* name or not invocations.
C17_ConnectOnlyForApprovedUnbound == [][C17_Step]_vars

\* a processToolInvocations call of a request instance has returned after
\* its approved invocation opened the only connection of the instance
C17_Witness ==
  /\ pti.pc = "done"
  /\ \E p \in DOMAIN pti.st :
       /\ ApprovedKnown(p)
       /\ LazyOf(p) \in DOMAIN handles
       /\ svc[User].clients = <<LazyOf(p)>>
       /\ pti.st[p].executed

\* part p of the current call is one the callback returns as it is: not a
\* tool invocation, of an unknown name, without an outcome, or of an outcome
\* that is neither approve nor reject
PassesThrough(p) ==
  \/ pti.parts[p].type # "tool-invocation"
  \/ ~pti.st[p].known
  \/ pti.parts[p].result \in Falsy
  \/ pti.parts[p].result \notin {APPROVE, REJECT}

\* C18: a part that is not a tool invocation, names an unknown capability,
\* has no outcome or has an outcome other than approve and reject is never
\* executed, opens no connection, writes no tool_result event and is returned
\* as it was; and the call returns the earlier messages as they were, followed
\* by the last message with as many parts as it had, each at its position
\* with its type and its capability name.
C18_PassThroughAndFrame ==
  /\ \A p \in DOMAIN pti.st :
       PassesThrough(p) =>
         /\ pti.st[p].pc = "done"
         /\ ~pti.st[p].executed
         /\ ~pti.st[p].resolved
         /\ pti.stream[p] = << >>
         /\ LazyOf(p) \notin DOMAIN handles
         /\ pti.pc = "done" => pti.out[p] = pti.parts[p]
  /\ pti.pc = "done" =>
       /\ Len(pti.ret) = Len(pti.earlier) + 1
       /\ SubSeq(pti.ret, 1, Len(pti.earlier)) = pti.earlier
       /\ LET last == pti.ret[Len(pti.ret)].parts IN
            /\ Len(last) = Len(pti.parts)
            /\ \A p \in DOMAIN pti.parts :
                 /\ last[p].type = pti.parts[p].type
                 /\ last[p].toolName = pti.parts[p].toolName

\* a call on two messages has returned the first message as it was and the
\* last one with its approved invocation executed at position 1 and its
\* invocation of an unrecognised outcome unchanged at position 2
C18_Witness ==
  /\ pti.pc = "done"
  /\ pti.earlier # << >>
  /\ pti.ret[1] = pti.earlier[1]
  /\ pti.parts = <<Inv("search", APPROVE), Inv("search", "other")>>
  /\ pti.st[1].executed
  /\ pti.ret[2].parts = <<Inv("search", "value"), Inv("search", "other")>>

\* C19: when processToolInvocations is applied, on the same instance, to the
\* messages it returned, no capability is executed, no tool_result event is
\* written, no callback waits, and the messages are returned as they were
\* given, whatever the execute functions of the first call returned.
C19_AttachedResultIsTerminal ==
  pti.again =>
    /\ \A p \in DOMAIN pti.st :
         /\ pti.st[p].pc = "done"
         /\ ~pti.st[p].executed
         /\ pti.stream[p] = << >>
    /\ pti.pc = "done" => pti.ret = Returned(pti.earlier, pti.parts)

\* C20: an approved invocation whose _getOrCreateLazyClient call failed (the
\* connection could not be opened or the listing failed) is resolved to
\* TOOL_NO_EXECUTE_FUNCTION without calling execute, and the call goes on.
C20_FailedLazyIsNoExecute ==
  \A p \in DOMAIN pti.st :
    (ApprovedKnown(p) /\ pti.st[p].lazy \in {"connfail", "listfail"}) =>
      /\ ~pti.st[p].executed
      /\ pti.st[p].pc = "done"
      /\ pti.st[p].resolved
      /\ pti.st[p].result = TOOL_NO_EXECUTE_FUNCTION
      /\ pti.pc = "done" => pti.out[p].result = TOOL_NO_EXECUTE_FUNCTION

\* the step writes a tool_result event for part p of the call in progress
WritesEvent(p) ==
  /\ p \in DOMAIN pti'.stream
  /\ \/ pti.pc # "running" \/ pti.id # pti'.id
     \/ pti'.stream[p] # pti.stream[p]
  /\ pti'.stream[p] # << >>

C21_Step ==
  /\ \A p \in DOMAIN pti'.st :
       /\ pti'.st[p].resolved => pti'.stream[p] = <<pti'.st[p].result>>
       /\ ~pti'.st[p].resolved => pti'.stream[p] = << >>
       /\ pti'.st[p].resolved =>
            /\ pti'.parts[p].type = "tool-invocation"
            /\ pti'.st[p].known
            /\ pti'.parts[p].result \in {APPROVE, REJECT}
       /\ (pti'.pc = "done" /\ pti'.st[p].resolved) =>
            pti'.out[p].result = pti'.stream[p][1]
       /\ pti'.pc = "done" =>
            (pti'.st[p].resolved <=> (pti'.parts[p].type = "tool-invocation"
                                       /\ pti'.st[p].known
                                       /\ pti'.parts[p].result \in {APPROVE, REJECT}))
  /\ \A p \in DOMAIN pti'.st :
       WritesEvent(p) => (pti'.pc = "running" /\ pti'.out = << >>)

\* C21: in every call, each invocation of a known capability with outcome
\* approve or reject has, once resolved, exactly one tool_result event under
\* its call id, carrying its result; the event is written while the call is
\* still running, before the processed parts are returned, and the returned
\* invocation carries the result of the event; by the return every such
\* invocation is resolved; no other part ever has an event.
C21_OneEventBeforeRecord == [][C21_Step]_vars

\* a call has returned an executed invocation and a rejected one, each with
\* its one event
C21_Witness ==
  /\ pti.pc = "done"
  /\ pti.parts = <<Inv("search", APPROVE), Inv("search", REJECT)>>
  /\ pti.stream = << <<"value">>, <<TOOL_EXECUTION_DENIED>> >>
  /\ pti.out = <<Inv("search", "value"), Inv("search", TOOL_EXECUTION_DENIED)>>

\* task s of the bulk reconfiguration of i settles in this step with outcome o
BulkSettles(i, s, o) ==
  /\ main[i].pc = "probing"
  /\ main[i].op # "check"
  /\ s \in DOMAIN main[i].tasks
  /\ main[i].tasks[s].pc # "done"
  /\ main'[i].tasks[s].pc = "done"
  /\ main'[i].tasks[s].outcome = o

C22_Step ==
  \A i \in Services : \A s \in Servers :
    /\ BulkSettles(i, s, "listfail") =>
         LET h == main[i].tasks[s].client IN
           /\ h # NoClient
           /\ svc'[i].mcpToolsPerServer[s] = Unavailable(h, ErrListing)
           /\ svc'[i].tools = svc[i].tools
           /\ svc'[i].toolsWithoutExecute = svc[i].toolsWithoutExecute
           /\ svc'[i].toolNamesToServerNames = svc[i].toolNamesToServerNames
           /\ h \in Range(svc[i].clients)
           /\ svc'[i].clients = svc[i].clients
    /\ BulkSettles(i, s, "connfail") =>
         /\ svc'[i].mcpToolsPerServer[s] =
              Unavailable(NoClient, main'[i].tasks[s].err)
         /\ main'[i].tasks[s].err \in {ErrConnect, CreateMCPClientError(svc[i].config, s, isNode)}
         /\ main'[i].tasks[s].err # ""
         /\ main'[i].tasks[s].client = NoClient
         /\ svc'[i].clients = svc[i].clients
         /\ handles' = handles
         /\ svc'[i].tools = svc[i].tools
         /\ svc'[i].toolsWithoutExecute = svc[i].toolsWithoutExecute
         /\ svc'[i].toolNamesToServerNames = svc[i].toolNamesToServerNames

Materializes(p) ==
  /\ pti.pc = "running"
  /\ p \in DOMAIN pti.st
  /\ pti.st[p].pc = "listing"
  /\ pti'.id = pti.id
  /\ pti'.st[p].lazy = "ok"

C23_Step ==
  \A p \in 1..MaxParts :
    Materializes(p) =>
      LET s == pti.st[p].owner
          h == pti.st[p].client
          old == svc[User]
          new == svc'[User]
          owned == {n \in ServerTools(s) : n \in DOMAIN old.toolNamesToServerNames
                                           /\ old.toolNamesToServerNames[n] = s}
      IN  /\ DOMAIN new.tools = DOMAIN old.tools \cup owned
          /\ \A n \in owned : new.tools[n] = Tool(s, h)
          /\ \A n \in DOMAIN new.tools \ owned : new.tools[n] = old.tools[n]
          /\ new.toolsWithoutExecute = old.toolsWithoutExecute
          /\ new.toolNamesToServerNames = old.toolNamesToServerNames
          /\ new.mcpToolsPerServer = old.mcpToolsPerServer

\* C23: the lazy materialization for a server S binds, to the new client, the
\* names S advertises whose index owner is S, and nothing else: every other
\* entry of the executable map is as before, a name S advertises that the
\* index gives to another server is neither rebound nor added, and the
\* stripped namespace, the index and the status map are unchanged.
C23_LazySpliceFrame == [][C23_Step]_vars

\* a materialization for A has run on an instance whose index gives "search",
\* which A also advertises, to B: "ta" is bound to A's client and "search"
\* has no executable binding
C23_Witness ==
  /\ pti.pc = "running"
  /\ DOMAIN svc[User].tools = {"ta"}
  /\ "search" \in DOMAIN svc[User].toolNamesToServerNames
  /\ \E p \in DOMAIN pti.st :
       /\ pti.st[p].lazy = "ok"
       /\ pti.st[p].owner = "A"
       /\ svc[User].tools["ta"] = Tool("A", pti.st[p].client)
  /\ "search" \in ServerTools("A")
  /\ svc[User].toolNamesToServerNames["search"] = "B"

\* the three maps of an instance have the same names and no stripped entry
\* has an execute function
Lockstep(inst) ==
  /\ DOMAIN inst.tools = DOMAIN inst.toolsWithoutExecute
  /\ DOMAIN inst.toolsWithoutExecute = DOMAIN inst.toolNamesToServerNames
  /\ \A n \in DOMAIN inst.toolsWithoutExecute : ~inst.toolsWithoutExecute[n].execute

\* a task of a bulk reconfiguration or of a re-probe of i registers the tools
\* of its server in this step
RegistersIn(i) ==
  /\ main[i].pc = "probing"
  /\ \E s \in DOMAIN main[i].tasks :
       /\ main[i].tasks[s].pc = "listing"
       /\ main'[i].tasks[s].outcome = "ok"

\* the tasks of a bulk reconfiguration or of a re-probe of i are joined
JoinsIn(i) == main[i].pc = "probing" /\ main'[i].pc \in {"done", "closing2"}

C24_Step ==
  \A i \in Insts : (RegistersIn(i) \/ JoinsIn(i)) => Lockstep(svc'[i])

\* C24: after every registration made by a task of a bulk reconfiguration
\* (updateConfig, updateGlobalConfig) or of a re-probe
\* (checkServersAvailabilities), and when the tasks are joined, the executable
\* namespace, the stripped namespace and the ownership index of the instance
\* have the same set of names and no stripped entry has an execute function.
C24_NamespacesInLockstep == [][C24_Step]_vars

\* a re-probe has returned after registering the tools of both servers
C24_Witness ==
  /\ main[User].op = "check"
  /\ main[User].pc = "done"
  /\ main[User].path = "probed"
  /\ DOMAIN svc[User].tools = {"search", "ta"}
  /\ DOMAIN svc[User].toolNamesToServerNames = {"search", "ta"}
  /\ \E s \in Servers : svc[User].tools["search"].server = s
                        /\ svc[User].toolNamesToServerNames["search"] = s

\* C25: for every raw entry, the error _validateServerConfig reports is that
\* of the first rule that matches, in this order: command and url both
\* present (whatever the type): cannot-have-both; url present and no type:
\* missing-type; a type that is none of the three known kinds, or no type
\* with neither field: invalid-type; a known type without its field (stdio
\* without command, sse or streamable-http without url): missing field.
C25_FirstMatchingRule ==
  entry.result # NotValidated =>
    LET raw == entry.raw
        res == entry.result
        hasCommand == raw.command # "absent"
        hasUrl == raw.url # "absent"
        both == hasCommand /\ hasUrl
        noType == raw.type = "absent"
        missingType == ~both /\ hasUrl /\ noType
        invalidType == /\ ~both
                       /\ ~missingType
                       /\ \/ raw.type = "other"
                          \/ (noType /\ ~hasCommand /\ ~hasUrl)
        missingField == /\ ~both
                        /\ ~missingType
                        /\ ~invalidType
                        /\ \/ raw.type = "stdio" /\ ~hasCommand
                           \/ raw.type \in {"sse", "streamable-http"} /\ ~hasUrl
    IN  /\ both => (~res.ok /\ res.error = ErrBoth)
        /\ missingType => (~res.ok /\ res.error = ErrMissingType)
        /\ invalidType => (~res.ok /\ res.error = ErrInvalidType)
        /\ missingField =>
             /\ ~res.ok
             /\ res.error = IF raw.type = "stdio" THEN ErrMissingCommand ELSE ErrMissingUrl
        /\ res.error \in {ErrBoth, ErrMissingType, ErrInvalidType,
                          ErrMissingCommand, ErrMissingUrl}
             => (both \/ missingType \/ invalidType \/ missingField)

\* an entry with command, url and an unknown type has been rejected with the
\* cannot-have-both error
C25_Witness ==
  /\ entry.raw = Raw("ok", "ok", "other")
  /\ ~entry.result.ok
  /\ entry.result.error = ErrBoth

\* the entry of server s in configuration c validates as a stdio server
StdioServer(c, s) ==
  /\ s \in DOMAIN McpServers(c)
  /\ _validateServerConfig(McpServers(c)[s]).ok
  /\ _validateServerConfig(McpServers(c)[s]).type = "stdio"

\* C26: in a runtime that cannot spawn processes, a stdio server of the
\* configuration of an instance never has a connection (no handle of the
\* instance is ever opened for it, no task of it reaches the listing), and
\* whenever the status map of the instance has an entry for it, that entry is
\* unavailable, without client, with the unsupported-environment message.
C26_StdioUnsupportedReported ==
  ~isNode =>
    \A i \in Insts : \A s \in Servers :
      StdioServer(svc[i].config, s) =>
        /\ \A h \in DOMAIN handles : ~(Owner(h) = i /\ handles[h].server = s)
        /\ s \in DOMAIN main[i].tasks => main[i].tasks[s].pc # "listing"
        /\ s \in DOMAIN svc[i].mcpToolsPerServer =>
             svc[i].mcpToolsPerServer[s] = Unavailable(NoClient, ErrStdioUnsupported)

C28_NoLazyConnectionLeak ==
  \A h \in DOMAIN handles :
    (Owner(h) = User /\ handles[h].via = "lazy" /\ handles[h].closeCalls = 0)
      => h \in Range(svc[User].clients)

\* the updateSettings calls that have sent their request and not finished
UpdatesInFlight(calls) ==
  {j \in DOMAIN calls : calls[j].op = "updateSettings" /\ calls[j].pc # "done"}

\* call j is made in this step
Made(j) == j \notin DOMAIN storeCalls /\ j \in DOMAIN storeCalls'

\* call j finishes in this step after having awaited its request
Finishes(j) ==
  /\ j \in DOMAIN storeCalls
  /\ storeCalls[j].pc # "done"
  /\ storeCalls'[j].pc = "done"

C29_Step ==
  /\ Cardinality(UpdatesInFlight(storeCalls')) <= 1
  /\ store'.isUpdatingConfig <=> UpdatesInFlight(storeCalls') # {}
  /\ \A j \in 1..MaxStoreCalls :
       /\ (Made(j) /\ storeCalls'[j].op = "updateSettings" /\ store.isUpdatingConfig) =>
            /\ storeCalls'[j].pc = "done"
            /\ storeCalls'[j].outcome = "skipped"
            /\ store' = store
            /\ localStorage' = localStorage
       /\ (Made(j) /\ storeCalls'[j].op = "updateSettings" /\ ~store.isUpdatingConfig) =>
            storeCalls'[j].pc = "fetching"
       /\ (Finishes(j) /\ storeCalls[j].op = "updateSettings") =>
            /\ ~store'.isUpdatingConfig
            /\ storeCalls'[j].outcome \in {"returned", "threw"}

\* C29: at most one updateSettings call has a request to the server in
\* flight, and isUpdatingConfig is true exactly while one has; an
\* updateSettings call made while isUpdatingConfig is true returns at once
\* without a request and leaves the store and the saved item as they are; when
\* a call that sent its request finishes, by returning or by throwing,
\* isUpdatingConfig is false.
C29_OneUpdateInFlight == [][C29_Step]_vars

\* an updateSettings call made during another one has returned at the guard,
\* and the other has then failed, leaving isUpdatingConfig false
C29_Witness ==
  /\ Len(storeCalls) = 2
  /\ storeCalls[1].op = "updateSettings"
  /\ storeCalls[1].outcome = "threw"
  /\ storeCalls[2].op = "updateSettings"
  /\ storeCalls[2].outcome = "skipped"
  /\ ~store.isUpdatingConfig

\* no other call of the store finished between the making of call j and the
\* step
AloneSince(j) == Finished(storeCalls) \ {j} = storeCalls[j].doneAtStart

C30_Step ==
  \A j \in 1..MaxStoreCalls :
    (/\ j \in DOMAIN storeCalls'
     /\ storeCalls'[j].op = "updateSettings"
     /\ (Made(j) \/ storeCalls'[j] # storeCalls[j])) =>
      LET call == storeCalls'[j]
          accepted == /\ j \in DOMAIN storeCalls
                      /\ storeCalls[j].pc = "parsing"
                      /\ call.outcome = "returned"
      IN  /\ (Finishes(j) /\ call.outcome = "threw") =>
                /\ Kept(store', localStorage') = Kept(store, localStorage)
                /\ store'.error = store.error
                /\ AloneSince(j) => Kept(store', localStorage') = call.before
          /\ Kept(store', localStorage') # Kept(store, localStorage) => accepted
          /\ accepted =>
                /\ store'.settings = call.arg
                /\ store'.serverTools = ToolsOf(call.arg.mcpConfig)
                /\ isBrowser => localStorage' = Stringify(call.arg)

\* C30: when the request of an updateSettings call fails (fetch rejects, the
\* response is not ok, or its body cannot be read) the call throws and the
\* step changes neither the settings, nor serverTools, nor the saved item,
\* which are those the call found when it was made unless another call of
\* the store finished meanwhile; an updateSettings call changes them only in
\* the step in which the body of an ok response has been read, and then the
\* settings stored and saved are the new settings.
C30_FailedUpdateChangesNothing == [][C30_Step]_vars

\* an updateSettings call with new settings has thrown and the store and the
\* saved item are those of before the call
C30_Witness ==
  /\ isBrowser
  /\ Len(storeCalls) = 2
  /\ storeCalls[2].op = "updateSettings"
  /\ storeCalls[2].outcome = "threw"
  /\ storeCalls[2].arg # store.settings
  /\ localStorage # Stringify(storeCalls[2].arg)
  /\ Kept(store, localStorage) = storeCalls[2].before
  /\ store.serverTools # EmptyTools

\* the initialize calls that have sent their request and not finished
InitsInFlight(calls) ==
  {j \in DOMAIN calls : calls[j].op = "initialize" /\ calls[j].pc # "done"}

\* initialize call j returns in this step (it does not throw)
InitializeReturns(j) ==
  /\ j \in DOMAIN storeCalls'
  /\ storeCalls'[j].op = "initialize"
  /\ storeCalls'[j].pc = "done"
  /\ storeCalls'[j].outcome \in {"returned", "skipped"}
  /\ (Made(j) \/ Finishes(j))

C31_Step ==
  /\ Cardinality(InitsInFlight(storeCalls')) <= 1
  /\ \A j \in 1..MaxStoreCalls :
       /\ (/\ Made(j)
           /\ storeCalls'[j].op = "initialize"
           /\ (store.isInitialized \/ InitsInFlight(storeCalls) # {})) =>
            /\ storeCalls'[j].pc = "done"
            /\ store'.settings = store.settings
            /\ localStorage' = localStorage
       /\ InitializeReturns(j) => store'.isInitialized

\* C31: over all initialize calls, overlapping or not, at most one sends the
\* configuration update to the server; a call made after the store is
\* initialised, or while another initialize call awaits the server, sends
\* nothing and loads nothing into the store or the saved item; and
\* isInitialized is true when an initialize call returns.
C31_InitialisesOnce == [][C31_Step]_vars

====
